---------------------------- MODULE Spec2Model ----------------------------
(***************************************************************************)
(* A model of the jsonrpc package: the middleware chain composer           *)
(* (helpers.go), the server engine and the client engine (client.go) and   *)
(* the error value (error.go).                                             *)
(*                                                                         *)
(* Conventions.  An optional Go value (a nil-able pointer, an `any` that   *)
(* may be nil, an error) is a sequence of length at most one: <<>> is nil. *)
(* A json.RawMessage is a sequence too: <<>> is the empty message.         *)
(* Go indexes from 0 and TLA+ sequences from 1: position i of a Go slice   *)
(* is element i + 1 of the sequence that models it.                        *)
(***************************************************************************)
EXTENDS Integers, Sequences, FiniteSets, TLC

VARIABLES
    arrays,       \* server: backing arrays of s.opts.before/after/middleware
    sopts,        \* server: s.opts, one slice header per option list
    methods,      \* server: s.methods, name -> ServerMethod
    exchange,     \* server: the HTTP exchange ServeHTTP has just handled
                  \* (and, after it, the one before it on a resubmission)
    chain,        \* composer: the last composed endpoint and its call
    client,       \* client: c.incrementID and c.opts
    call,         \* client: the Execute call that has just returned (and,
                  \* after it, the call before it when the batch is resubmitted)
    procs         \* client: the Execute calls running concurrently

serverVars == <<arrays, sopts, methods, exchange>>
clientVars == <<client, call>>
vars == <<arrays, sopts, methods, exchange, chain, client, call, procs>>

(***************************************************************************)
(* Bounds of the model.                                                    *)
(***************************************************************************)
MaxChain == 3     \* longest middleware list handed to middlewareChain
MaxElems == 2     \* most elements in a request body that is an array
MaxBatch == 2     \* most requests in one Execute call
MaxProcs == 2     \* most Execute calls running at once on one client

(***************************************************************************)
(* Program constants.                                                      *)
(***************************************************************************)
jsonRPCParseError == -32700
jsonRPCMethodNotFoundError == -32601
jsonRPCInternalError == -32603

Version == "2.0"

Nil == <<>>

(***************************************************************************)
(* Error values (error.go).  A Go error is nil or a value with an Error()  *)
(* string; a *Error carries a code and data beside its message.  A message *)
(* is a tuple of the strings it is made of.                                *)
(***************************************************************************)
\* &Error{code, message, data}
Error(code, message, data) ==
    <<[kind |-> "error", of |-> "", value |-> Nil, code |-> code,
       message |-> message, data |-> data]>>

\* An error that is nothing but its message: errors.New(message).
PlainError(message) ==
    <<[kind |-> "plain", of |-> "", value |-> Nil, code |-> 0,
       message |-> message, data |-> Nil]>>

\* err.Error(): the message, whatever else the error carries.
ErrorString(err) == err[1].message

\* (*Error).Code() and (*Error).Data()
ErrorCode(err) == err[1].code
ErrorData(err) == err[1].data

(***************************************************************************)
(* Endpoints and middleware (helpers.go).                                  *)
(*                                                                         *)
(* An Endpoint value is the sequence of the wrappers around a core         *)
(* endpoint, outermost first, ending with the core endpoint's name:        *)
(* m(next) is <<m>> \o next.                                               *)
(***************************************************************************)
MiddlewareNames == {"A", "B", "C"}
EndpointNames == {"Add", "Echo"}

\* The params a request may carry, and what the application's decode
\* function and endpoints make of them.
Params == {"ok", "bad", "boom", "chan"}

\* A middleware applied to an endpoint: the decorator m(next).
Wrap(m, next) == <<m>> \o next

\* The loop run from the first of `others` to the last.
RECURSIVE WrapOthersForward(_, _, _)
WrapOthersForward(others, n, next) ==
    IF n = 0 THEN next
    ELSE WrapOthersForward(others, n - 1, Wrap(others[Len(others) + 1 - n], next))

\* The loop of middlewareChain: for i := len(others) - 1; i >= 0; i--.
\* `n` is the number of elements of `others` still to wrap.
RECURSIVE WrapOthers(_, _, _)
WrapOthers(others, n, next) ==
    IF n = 0 THEN next
    ELSE WrapOthers(others, n - 1, Wrap(others[n], next))

\* middlewareChain(middlewares)(next)
middlewareChain(middlewares, next) ==
    IF Len(middlewares) = 0 THEN next
    ELSE LET outer == Head(middlewares)
             others == Tail(middlewares)
         IN Wrap(outer, WrapOthers(others, Len(others), next))

\* What the application's endpoint returns for a decoded request: for "boom"
\* it fails with an application error that carries a code, a message and
\* data; for "chan" it returns a value json.Marshal rejects; else a value
\* that records the endpoint, its request and the context it was called with.
EndpointFunc(e, ctx, request) ==
    IF request = "boom"
    THEN [response |-> Nil,
          err |-> Error(1001, <<"endpoint failed", e>>, <<"detail">>)]
    ELSE [response |-> <<[kind |-> IF request = "chan" THEN "chan" ELSE "value",
                          by |-> e, arg |-> request, ctx |-> ctx]>>,
          err |-> Nil]

\* A call of an Endpoint value: every wrapper logs its entry, calls next and
\* logs its exit; the core endpoint is entered and left too.
RECURSIVE CallEndpoint(_, _, _)
CallEndpoint(ep, ctx, request) ==
    IF Len(ep) = 1
    THEN LET r == EndpointFunc(ep[1], ctx, request)
         IN [response |-> r.response, err |-> r.err,
             trace |-> <<[ev |-> "enter", who |-> ep[1]],
                         [ev |-> "exit", who |-> ep[1]]>>]
    ELSE LET r == CallEndpoint(Tail(ep), ctx, request)
         IN [response |-> r.response, err |-> r.err,
             trace |-> <<[ev |-> "enter", who |-> ep[1]]>> \o r.trace
                       \o <<[ev |-> "exit", who |-> ep[1]]>>]

(***************************************************************************)
(* Option lists (client.go 442-466).                                       *)
(*                                                                         *)
(* Options.before, .after and .middleware are Go slices.  Register copies  *)
(* the server's three slice headers and appends to the copies, so a        *)
(* method's slice either still lives in the server's backing array (arr =  *)
(* "srv": its elements are the first len elements of arrays[kind]) or in   *)
(* an array of its own that nothing else refers to (arr = "own": its       *)
(* elements are `own`).                                                    *)
(***************************************************************************)
OptionKinds == {"before", "after", "middleware"}

Zero == "nil"     \* the zero value of an array slot never written

NilSlice == [arr |-> "own", len |-> 0, cap |-> 0, own |-> <<>>]

\* The capacity the runtime gives a slice of pointer-sized elements grown
\* from capacity oldCap to hold newLen elements (lists of up to 16).
GrowCap(oldCap, newLen) ==
    LET newcap == IF newLen > 2 * oldCap THEN newLen ELSE 2 * oldCap
    IN IF newcap <= 4 \/ newcap % 2 = 0 THEN newcap ELSE newcap + 1

\* The elements of slice h of the given kind.
Elems(a, kind, h) ==
    IF h.arr = "srv" THEN SubSeq(a[kind], 1, h.len) ELSE h.own

\* append(h, items...): the new header and the backing arrays after it.
SliceAppend(a, kind, h, items) ==
    LET n == Len(items)
    IN IF n = 0 THEN [h |-> h, a |-> a]
       ELSE IF h.len + n <= h.cap
       THEN IF h.arr = "srv"
            THEN [h |-> [h EXCEPT !.len = h.len + n],
                  a |-> [a EXCEPT ![kind] =
                            [i \in 1..Len(a[kind]) |->
                                IF i > h.len /\ i <= h.len + n
                                THEN items[i - h.len] ELSE a[kind][i]]]]
            ELSE [h |-> [h EXCEPT !.len = h.len + n, !.own = h.own \o items],
                  a |-> a]
       ELSE [h |-> [arr |-> "own", len |-> h.len + n,
                    cap |-> GrowCap(h.cap, h.len + n),
                    own |-> Elems(a, kind, h) \o items],
             a |-> a]

\* The Option values Before(...), After(...) and EndpointMiddleware(...).
Before(before) == [kind |-> "before", items |-> before]
After(after) == [kind |-> "after", items |-> after]
EndpointMiddleware(middleware) == [kind |-> "middleware", items |-> middleware]

\* for _, opt := range opts { opt(o) }
RECURSIVE ApplyOpts(_, _, _)
ApplyOpts(o, a, opts) ==
    IF opts = <<>> THEN [o |-> o, a |-> a]
    ELSE LET opt == Head(opts)
             r == SliceAppend(a, opt.kind, o[opt.kind], opt.items)
         IN ApplyOpts([o EXCEPT ![opt.kind] = r.h], r.a, Tail(opts))

\* NewServer(opts...): the options are appended to nil slices; the arrays
\* they end in become the server's backing arrays.
NewServer(opts) ==
    LET r == ApplyOpts([k \in OptionKinds |-> NilSlice],
                       [k \in OptionKinds |-> <<>>], opts)
    IN [arrays |-> [k \in OptionKinds |->
                       [i \in 1..r.o[k].cap |->
                           IF i <= r.o[k].len THEN r.o[k].own[i] ELSE Zero]],
        opts |-> [k \in OptionKinds |->
                     [arr |-> "srv", len |-> r.o[k].len, cap |-> r.o[k].cap,
                      own |-> <<>>]]]

(***************************************************************************)
(* The hooks and decode functions an application registers.                *)
(***************************************************************************)
MethodNames == {"add", "echo"}

\* The endpoint an application binds to a method name.
HandlerOf(method) == IF method = "add" THEN "Add" ELSE "Echo"

\* BeforeFunc: returns the rewritten context, or fails.
BeforeFunc(h, ctx) ==
    [ctx |-> Append(ctx, h),
     err |-> IF h = "hFail" THEN PlainError(<<"hook failed", h>>) ELSE Nil]

\* AfterFunc: returns the rewritten context.
AfterFunc(h, ctx) == Append(ctx, h)

\* ReqDecode: raw params to the endpoint's request, or a failure.
ReqDecodeFunc(d, ctx, params) ==
    IF params = "bad"
    THEN [request |-> Nil, err |-> PlainError(<<"decode failed", d>>)]
    ELSE [request |-> <<params>>, err |-> Nil]

(***************************************************************************)
(* The server engine (client.go 410-440, 468-559).                         *)
(***************************************************************************)
\* The ids a request element may carry (any JSON number).
WireIds == {1, 2}

\* A well-typed request envelope, as json.Unmarshal decodes it.
jsonRPCRequest(id, method, params) ==
    [typed |-> TRUE, ID |-> <<id>>, Method |-> method, Params |-> params]

\* A JSON value that is no request envelope (a number, or an object whose
\* "method" is not a string): json.Unmarshal fails on it.
IllTyped == [typed |-> FALSE, ID |-> Nil, Method |-> "", Params |-> ""]

Elements ==
    {jsonRPCRequest(id, m, p) : id \in WireIds, m \in MethodNames, p \in Params}
    \cup {IllTyped}

RECURSIVE SeqsUpTo(_, _)
SeqsUpTo(S, n) ==
    IF n = 0 THEN {<<>>}
    ELSE LET shorter == SeqsUpTo(S, n - 1)
         IN shorter \cup {Append(s, x) : s \in {t \in shorter : Len(t) = n - 1},
                                         x \in S}

\* The request bodies: text that is not JSON, a JSON array of values, or a
\* single JSON value.
Bodies ==
    {[kind |-> "garbage", elems |-> <<>>]}
    \cup {[kind |-> "array", elems |-> es] : es \in SeqsUpTo(Elements, MaxElems)}
    \cup {[kind |-> "object", elems |-> <<e>>] : e \in Elements}

\* jsonRPCRequestData.UnmarshalJSON(b), called by the decoder on a body that
\* is well-formed JSON: isBatch is set before the elements are decoded.
UnmarshalJSON(b) ==
    IF b.kind = "array"
    THEN [isBatch |-> TRUE,
          requests |-> b.elems,
          err |-> IF \E i \in 1..Len(b.elems) : ~b.elems[i].typed
                  THEN PlainError(<<"cannot unmarshal">>) ELSE Nil]
    ELSE IF ~b.elems[1].typed
    THEN [isBatch |-> FALSE, requests |-> <<>>,
          err |-> PlainError(<<"cannot unmarshal">>)]
    ELSE [isBatch |-> FALSE, requests |-> <<b.elems[1]>>, err |-> Nil]

\* json.NewDecoder(r.Body).Decode(&requestData): a syntax error is found
\* before UnmarshalJSON is called and leaves requestData as declared.
Decode(b) ==
    IF b.kind = "garbage"
    THEN [isBatch |-> FALSE, requests |-> <<>>,
          err |-> PlainError(<<"invalid character">>)]
    ELSE UnmarshalJSON(b)

\* s.makeErrorResponse(id, code, message)
makeErrorResponse(id, code, message) ==
    [ID |-> id, Version |-> Version,
     Error |-> <<[Code |-> code, Message |-> message, Data |-> Nil]>>,
     Result |-> <<>>]

\* for _, before := range method.opts.before: from hook i on, until one fails.
RECURSIVE RunBefore(_, _, _, _)
RunBefore(hooks, i, ctx, trace) ==
    IF i > Len(hooks) THEN [ctx |-> ctx, err |-> Nil, trace |-> trace]
    ELSE LET r == BeforeFunc(hooks[i], ctx)
             t == Append(trace, [ev |-> "before", who |-> hooks[i]])
         IN IF r.err # Nil THEN [ctx |-> r.ctx, err |-> r.err, trace |-> t]
            ELSE RunBefore(hooks, i + 1, r.ctx, t)

\* The after hooks run from the last to the first.
RECURSIVE RunAfterReversed(_, _, _, _)
RunAfterReversed(hooks, i, ctx, trace) ==
    IF i > Len(hooks) THEN [ctx |-> ctx, trace |-> trace]
    ELSE LET h == hooks[Len(hooks) + 1 - i]
         IN RunAfterReversed(hooks, i + 1, AfterFunc(h, ctx),
                             Append(trace, [ev |-> "after", who |-> h]))

\* for _, after := range method.opts.after
RECURSIVE RunAfter(_, _, _, _)
RunAfter(hooks, i, ctx, trace) ==
    IF i > Len(hooks) THEN [ctx |-> ctx, trace |-> trace]
    ELSE RunAfter(hooks, i + 1, AfterFunc(hooks[i], ctx),
                  Append(trace, [ev |-> "after", who |-> hooks[i]]))

\* s.handleMethod(method, ctx, w, r, params), reading the option lists
\* through the backing arrays a.
handleMethod(a, method, ctx, params) ==
    LET b == RunBefore(Elems(a, "before", method.opts.before), 1, ctx, <<>>)
    IN IF b.err # Nil
       THEN [resp |-> Nil, err |-> b.err, trace |-> b.trace, ctx |-> b.ctx]
       ELSE
    LET d == ReqDecodeFunc(method.reqDecode, b.ctx, params)
        td == Append(b.trace, [ev |-> "decode", who |-> method.reqDecode])
    IN IF d.err # Nil
       THEN [resp |-> Nil, err |-> d.err, trace |-> td, ctx |-> b.ctx]
       ELSE
    LET c == CallEndpoint(
                 middlewareChain(Elems(a, "middleware", method.opts.middleware),
                                 <<method.endpoint>>),
                 b.ctx, d.request[1])
        tc == td \o c.trace
    IN IF c.err # Nil
       THEN [resp |-> Nil, err |-> c.err, trace |-> tc, ctx |-> b.ctx]
       ELSE
    LET f == RunAfter(Elems(a, "after", method.opts.after), 1, b.ctx, tc)
    IN [resp |-> c.response, err |-> Nil, trace |-> f.trace, ctx |-> f.ctx]

\* A serialization that succeeds with no bytes at all.
MarshalEmpty(resp) == [result |-> <<>>, err |-> Nil]

\* json.Marshal(resp) of an endpoint's response: an error, or the JSON text
\* of the value, which is never empty.
Marshal(resp) ==
    IF resp[1].kind = "chan"
    THEN [result |-> <<>>, err |-> PlainError(<<"json: unsupported type">>)]
    ELSE [result |-> <<"json", resp[1]>>, err |-> Nil]

\* s.methods[name]: the method and whether the name is registered.
Lookup(ms, name) == IF name \in DOMAIN ms THEN <<ms[name]>> ELSE Nil

\* An element's events, marked with the position of the element.
Tag(trace, k) ==
    [i \in 1..Len(trace) |-> [k |-> k, ev |-> trace[i].ev, who |-> trace[i].who]]

\* The context of the element before is handed on.
ElementCtxLeak(ctx, last) == last

\* The context an element is handled with: ServeHTTP passes its own ctx,
\* r.Context(), which it never reassigns; `last` is the context the hooks of
\* the element before it returned.
ElementCtx(ctx, last) == ctx

\* An error response ends the loop: `break`.
AfterErrorResponseBreak(rest) == <<>>

\* The elements still to process after one has been answered with an error
\* response: `continue`.
AfterErrorResponse(rest) == rest

\* The body of the loop of ServeHTTP for element k: the response appended and
\* the events it caused.
DispatchElement(a, ms, ctx, req, k) ==
    LET method == Lookup(ms, req.Method)
    IN IF method = Nil
       THEN [response |-> makeErrorResponse(req.ID, jsonRPCMethodNotFoundError,
                                            <<"method not found", req.Method>>),
             failed |-> TRUE, trace |-> <<>>, ctx |-> ctx]
       ELSE
    LET h == handleMethod(a, method[1], ctx, req.Params)
    IN IF h.err # Nil
       THEN [response |-> makeErrorResponse(req.ID, jsonRPCInternalError,
                                            ErrorString(h.err)),
             failed |-> TRUE, trace |-> Tag(h.trace, k), ctx |-> h.ctx]
       ELSE
    LET m == Marshal(h.resp)
        tm == Tag(Append(h.trace, [ev |-> "marshal", who |-> req.Method]), k)
    IN IF m.err # Nil
       THEN [response |-> makeErrorResponse(req.ID, jsonRPCInternalError,
                                            ErrorString(m.err)),
             failed |-> TRUE, trace |-> tm, ctx |-> h.ctx]
       ELSE [response |-> [ID |-> req.ID, Version |-> "2.0", Error |-> Nil,
                           Result |-> m.result],
             failed |-> FALSE, trace |-> tm, ctx |-> h.ctx]

\* for _, req := range requestData.requests, from element k on.
RECURSIVE DispatchLoop(_, _, _, _, _, _, _, _)
DispatchLoop(a, ms, ctx, last, reqs, k, responses, trace) ==
    IF reqs = <<>> THEN [responses |-> responses, trace |-> trace]
    ELSE LET d == DispatchElement(a, ms, ElementCtx(ctx, last), Head(reqs), k)
             rest == IF d.failed THEN AfterErrorResponse(Tail(reqs))
                     ELSE Tail(reqs)
         IN DispatchLoop(a, ms, ctx, d.ctx, rest, k + 1,
                         Append(responses, d.response), trace \o d.trace)

\* A response envelope as json.Encoder writes it: "error" and "result" are
\* omitempty, so a nil Error and an empty Result leave no key.
EncodeResponse(r) ==
    [keys |-> {"id", "jsonrpc"}
              \cup (IF r.Error # Nil THEN {"error"} ELSE {})
              \cup (IF Len(r.Result) > 0 THEN {"result"} ELSE {}),
     id |-> r.ID, jsonrpc |-> r.Version, error |-> r.Error, result |-> r.Result]

\* json.NewEncoder(w).Encode(data): data is the responses slice (a nil slice
\* is written as null) or its first element.
Encode(isBatch, responses) ==
    IF isBatch
    THEN IF Len(responses) = 0
         THEN [kind |-> "null", items |-> <<>>]
         ELSE [kind |-> "array",
               items |-> [i \in 1..Len(responses) |-> EncodeResponse(responses[i])]]
    ELSE [kind |-> "object", items |-> <<EncodeResponse(responses[1])>>]

\* r.Context(): the context of the incoming HTTP request.
RequestCtx == <<"http">>

\* What ServeHTTP does with a body: the decoded framing, the responses
\* collected, what is written to w, and the events of the dispatch.
Serve(a, ms, body) ==
    LET ctx == RequestCtx
        rd == Decode(body)
        loop == IF rd.err # Nil
                THEN [responses |-> <<makeErrorResponse(Nil, jsonRPCParseError,
                                                          ErrorString(rd.err))>>,
                      trace |-> <<>>]
                ELSE DispatchLoop(a, ms, ctx, ctx, rd.requests, 1, <<>>, <<>>)
    IN [body |-> body, isBatch |-> rd.isBatch, decodeErr |-> rd.err,
        responses |-> loop.responses, trace |-> loop.trace,
        written |-> Encode(rd.isBatch, loop.responses)]

(***************************************************************************)
(* The client engine (client.go 13-224) and the error value (error.go).    *)
(***************************************************************************)
\* The typed requests of an application.  MakeRequest returns Method and
\* Params (the third request's params hold a channel, which json cannot
\* encode); Before and After are the hooks of a request that implements
\* RequesterWithBefore and RequesterWithAfter; Context is nil.
Requesters ==
    {[Method |-> "add", Params |-> "ok", Before |-> <<>>, After |-> <<>>,
      Context |-> Nil],
     [Method |-> "echo", Params |-> "ok", Before |-> <<"rb">>, After |-> <<"ra">>,
      Context |-> Nil],
     [Method |-> "add", Params |-> "chan", Before |-> <<>>, After |-> <<>>,
      Context |-> Nil]}

\* request.MakeResult(data): the raw result converted to the result type of
\* the request, which fails on bytes that are no result of its method.
MakeResult(request, data) ==
    IF data = <<>> \/ data[2].by # HandlerOf(request.Method)
    THEN [result |-> Nil, err |-> <<"cannot convert result">>]
    ELSE [result |-> <<[kind |-> "result", of |-> request.Method,
                        value |-> <<data[2]>>, code |-> 0, message |-> <<>>,
                        data |-> Nil]>>,
          err |-> Nil]

\* ClientBeforeFunc: returns the rewritten context.
ClientBeforeFunc(h, ctx) == Append(ctx, h)

\* The option lists an application may hand to NewClient.
ClientOptions ==
    {[before |-> <<>>, after |-> <<>>],
     [before |-> <<"g1", "g2">>, after |-> <<"ga">>]}

\* NewClient(target, opts...)
NewClient(opts) == [incrementID |-> 0, opts |-> opts]

\* Map lookup m[k]: the zero value when k is no key.
MapGet(m, k) == IF k \in DOMAIN m THEN m[k] ELSE 0

\* The counter is left as the call before left it.
ResetIDKeep(counter) == counter

\* A counter that is read and never added to.
autoIncrementIDNoAdd(counter) == counter

\* c.autoIncrementID(): atomic.AddUint64(&c.incrementID, 1)
autoIncrementID(counter) == counter + 1

\* The value doRequests gives the counter before it assigns ids:
\* c.incrementID = 0.
ResetID(counter) == 0

\* idsIndex[r.ID] = i
IndexPut(idsIndex, id, i) ==
    [k \in DOMAIN idsIndex \cup {id} |-> IF k = id THEN i ELSE idsIndex[k]]

\* The hooks of a list run in order on the context of the outgoing request.
RECURSIVE RunClientBefore(_, _, _, _, _)
RunClientBefore(hooks, j, ctx, log, tag) ==
    IF j > Len(hooks) THEN [ctx |-> ctx, log |-> log]
    ELSE RunClientBefore(hooks, j + 1, ClientBeforeFunc(hooks[j], ctx),
                         Append(log, [ev |-> tag, who |-> hooks[j]]), tag)

\* for i, request := range requests, from position i (counted from 0) on.
RECURSIVE BuildRequests(_, _, _, _, _, _, _)
BuildRequests(requests, i, counter, idsIndex, rpcRequests, ctx, log) ==
    IF i >= Len(requests)
    THEN [counter |-> counter, idsIndex |-> idsIndex, rpcRequests |-> rpcRequests,
          ctx |-> ctx, log |-> log]
    ELSE LET request == requests[i + 1]
             ctx1 == IF request.Context # Nil THEN request.Context[1] ELSE ctx
             b == RunClientBefore(request.Before, 1, ctx1, log, "before")
             id == autoIncrementID(counter)
             r == [ID |-> id, Version |-> "2.0", Method |-> request.Method,
                   Params |-> request.Params]
         IN BuildRequests(requests, i + 1, id, IndexPut(idsIndex, id, i),
                          Append(rpcRequests, r), b.ctx, b.log)

\* A single request is encoded as an object, not as an array of one.
EncodeRequestsUnwrapSingle(rpcRequests) ==
    IF \E i \in 1..Len(rpcRequests) : rpcRequests[i].Params = "chan"
    THEN [body |-> [kind |-> "garbage", elems |-> <<>>],
          err |-> <<"json: unsupported type">>]
    ELSE [body |-> [kind |-> IF Len(rpcRequests) = 1 THEN "object" ELSE "array",
                    elems |-> [i \in 1..Len(rpcRequests) |->
                                  jsonRPCRequest(rpcRequests[i].ID,
                                                 rpcRequests[i].Method,
                                                 rpcRequests[i].Params)]],
          err |-> Nil]

\* json.NewEncoder(reqBuf).Encode(rpcRequests): a JSON array, whatever its
\* length; params that are a channel cannot be encoded.
EncodeRequests(rpcRequests) ==
    IF \E i \in 1..Len(rpcRequests) : rpcRequests[i].Params = "chan"
    THEN [body |-> [kind |-> "garbage", elems |-> <<>>],
          err |-> <<"json: unsupported type">>]
    ELSE [body |-> [kind |-> "array",
                    elems |-> [i \in 1..Len(rpcRequests) |->
                                  jsonRPCRequest(rpcRequests[i].ID,
                                                 rpcRequests[i].Method,
                                                 rpcRequests[i].Params)]],
          err |-> Nil]

\* c.doRequests(ctx, requests), with the outcome of the HTTP exchange given:
\* transport.kind is "neterr" (Do fails), "status" (a status other than 200),
\* "readerr" (the body cannot be read) or "body" (transport.data was read).
doRequests(c, ctx, requests, transport) ==
    LET g == RunClientBefore(c.opts.before, 1, ctx, <<>>, "global")
        b == BuildRequests(requests, 0, ResetID(c.incrementID),
                           [k \in {} |-> 0], <<>>, g.ctx, g.log)
        e == EncodeRequests(b.rpcRequests)
        failed == e.err # Nil \/ transport.kind # "body"
    IN [incrementID |-> b.counter,
        rpcRequests |-> b.rpcRequests,
        table |-> b.idsIndex,
        body |-> e.body,
        ctx |-> b.ctx,
        log |-> IF e.err = Nil THEN Append(b.log, [ev |-> "post", who |-> "POST"])
                ELSE b.log,
        idsIndex |-> IF failed THEN [k \in {} |-> 0] ELSE b.idsIndex,
        data |-> IF failed THEN [kind |-> "garbage", items |-> <<>>]
                 ELSE transport.data,
        err |-> IF e.err # Nil THEN e.err
                ELSE IF transport.kind # "body" THEN <<transport.kind>>
                ELSE Nil]

\* A clientResp whose ID field is not bound to the "id" key: ID stays 0.
DecodeResponseNoID(item) ==
    [ID |-> 0,
     Error |-> IF "error" \in item.keys THEN item.error ELSE Nil,
     Result |-> IF "result" \in item.keys THEN item.result ELSE <<>>]

\* A response envelope of the wire decoded into a clientResp: a null id leaves
\* ID at 0, an absent key leaves Error nil and Result empty.
DecodeResponse(item) ==
    [ID |-> IF item.id = Nil THEN 0 ELSE item.id[1],
     Error |-> IF "error" \in item.keys THEN item.error ELSE Nil,
     Result |-> IF "result" \in item.keys THEN item.result ELSE <<>>]

\* json.Unmarshal(data, &responses): only a JSON array or null decodes into
\* the slice, and null leaves it nil.
Unmarshal(data) ==
    IF data.kind = "array"
    THEN [responses |-> [i \in 1..Len(data.items) |-> DecodeResponse(data.items[i])],
          err |-> Nil]
    ELSE IF data.kind = "null" THEN [responses |-> <<>>, err |-> Nil]
    ELSE [responses |-> <<>>, err |-> <<"cannot unmarshal">>]

\* Every response is given index 0.
SlotOfZero(idsIndex, id) == 0

\* The index the correlation table gives a response: idsIndex[response.ID].
SlotOf(idsIndex, id) == MapGet(idsIndex, id)

\* The after hooks run for a response that carries a result.
AfterLog(c, request) ==
    [j \in 1..Len(c.opts.after) |-> [ev |-> "after", who |-> c.opts.after[j]]]
    \o [j \in 1..Len(request.After) |-> [ev |-> "after", who |-> request.After[j]]]

\* A response that carries an error ends the call with that error.
ErrorStepAbort(response, i, results, writes, log) ==
    [results |-> results, writes |-> writes, log |-> log,
     err |-> <<"rpc error">>]

\* A response that carries an error: the slot gets an *Error and the loop
\* goes on (`continue`).  results[i] of the code is results[i + 1] here;
\* writes counts the assignments to a slot.
ErrorStep(response, i, results, writes, log) ==
    [results |-> [results EXCEPT ![i + 1] =
                     Error(response.Error[1].Code, response.Error[1].Message,
                           response.Error[1].Data)],
     writes |-> [writes EXCEPT ![i + 1] = @ + 1],
     log |-> log, err |-> Nil]

\* A failed conversion is passed over and the loop goes on.
ResultStepIgnoreFailure(c, requests, response, i, results, writes, log) ==
    LET m == MakeResult(requests[i + 1], response.Result)
    IN [results |-> IF m.err # Nil THEN results
                    ELSE [results EXCEPT ![i + 1] = m.result],
        writes |-> IF m.err # Nil THEN writes
                   ELSE [writes EXCEPT ![i + 1] = @ + 1],
        log |-> log \o AfterLog(c, requests[i + 1]), err |-> Nil]

\* A response that carries no error: the after hooks run, then the request
\* at the slot converts the result, and a failed conversion ends the call.
ResultStep(c, requests, response, i, results, writes, log) ==
    LET request == requests[i + 1]
        m == MakeResult(request, response.Result)
        l == log \o AfterLog(c, request)
    IN IF m.err # Nil
       THEN [results |-> results, writes |-> writes, log |-> l, err |-> m.err]
       ELSE [results |-> [results EXCEPT ![i + 1] = m.result],
             writes |-> [writes EXCEPT ![i + 1] = @ + 1],
             log |-> l, err |-> Nil]

\* for _, response := range responses, from response j on.
RECURSIVE Correlate(_, _, _, _, _, _, _, _)
Correlate(c, requests, idsIndex, responses, j, results, writes, log) ==
    IF j > Len(responses)
    THEN [results |-> results, writes |-> writes, log |-> log, err |-> Nil]
    ELSE LET response == responses[j]
             i == SlotOf(idsIndex, response.ID)
             r == IF response.Error # Nil
                  THEN ErrorStep(response, i, results, writes, log)
                  ELSE ResultStep(c, requests, response, i, results, writes, log)
         IN IF r.err # Nil THEN r
            ELSE Correlate(c, requests, idsIndex, responses, j + 1,
                           r.results, r.writes, r.log)

\* c.ExecuteWithContext(ctx, requests...): what the call returns (batch is
\* the *BatchResult, nil on an error) and what it did on the way.
ExecuteWithContext(c, ctx, requests, transport) ==
    LET d == doRequests(c, ctx, requests, transport)
        u == Unmarshal(d.data)
        n == Len(requests)
        r == Correlate(c, requests, d.idsIndex, u.responses, 1,
                       [i \in 1..n |-> Nil], [i \in 1..n |-> 0], d.log)
        base == [requests |-> requests, transport |-> transport,
                 rpcRequests |-> d.rpcRequests, body |-> d.body,
                 table |-> d.table,
                 entryID |-> c.incrementID, incrementID |-> d.incrementID]
    IN IF d.err # Nil
       THEN [base |-> base, idsIndex |-> d.idsIndex, responses |-> <<>>,
             writes |-> [i \in 1..n |-> 0], log |-> d.log,
             batch |-> Nil, err |-> d.err]
       ELSE IF u.err # Nil
       THEN [base |-> base, idsIndex |-> d.idsIndex, responses |-> <<>>,
             writes |-> [i \in 1..n |-> 0], log |-> d.log,
             batch |-> Nil, err |-> u.err]
       ELSE IF r.err # Nil
       THEN [base |-> base, idsIndex |-> d.idsIndex, responses |-> u.responses,
             writes |-> r.writes, log |-> r.log,
             batch |-> Nil, err |-> r.err]
       ELSE [base |-> base, idsIndex |-> d.idsIndex, responses |-> u.responses,
             writes |-> r.writes, log |-> r.log,
             batch |-> <<r.results>>, err |-> Nil]

\* BatchResult.Len(), At(i) and Error(i), i counted from 0.
BatchLen(batch) == Len(batch[1])
BatchAt(batch, i) == batch[1][i + 1]
BatchError(batch, i) ==
    IF batch[1][i + 1] # Nil /\ batch[1][i + 1][1].kind = "error"
    THEN batch[1][i + 1] ELSE Nil

(***************************************************************************)
(* The server's operations.                                                *)
(***************************************************************************)
\* The option lists an application may hand to NewServer.
ServerOptions ==
    {<<>>,
     <<EndpointMiddleware(<<"A">>), Before(<<"s1">>), Before(<<"s2">>),
       Before(<<"s3">>), After(<<"t1">>)>>}

\* The option lists an application may hand to Register.
RegisterOptions ==
    {<<>>,
     <<Before(<<"hFail">>)>>,
     <<EndpointMiddleware(<<"B", "C">>), Before(<<"h1">>), After(<<"a1">>)>>}

NoMethods == [n \in {} |-> n]

IdleProcs == [p \in {} |-> p]

InitServer ==
    /\ \E opts \in ServerOptions :
           LET s == NewServer(opts)
           IN arrays = s.arrays /\ sopts = s.opts
    /\ methods = NoMethods
    /\ exchange = Nil
    /\ chain = Nil
    /\ client = NewClient([before |-> <<>>, after |-> <<>>])
    /\ call = Nil
    /\ procs = IdleProcs

\* What s.Register(method, endpoint, reqDecode, opts...) makes of a server
\* with backing arrays a, options so and registry ms.  `given` is no field of
\* ServerMethod: it records the options this registration was called with.
RegisterMethod(a, so, ms, method, endpoint, reqDecode, opts) ==
    LET r == ApplyOpts([before |-> so.before, after |-> so.after,
                        middleware |-> so.middleware], a, opts)
        sm == [opts |-> r.o, endpoint |-> endpoint, reqDecode |-> reqDecode,
               given |-> opts]
    IN [arrays |-> r.a,
        methods |-> [n \in DOMAIN ms \cup {method} |->
                        IF n = method THEN sm ELSE ms[n]]]

\* s.Register(method, endpoint, reqDecode, opts...)
Register(method, endpoint, reqDecode, opts) ==
    /\ exchange = Nil
    /\ \E r \in {RegisterMethod(arrays, sopts, methods, method, endpoint,
                                 reqDecode, opts)} :
          /\ arrays' = r.arrays
          /\ methods' = r.methods
    /\ UNCHANGED <<sopts, exchange, chain, client, call, procs>>

\* s.ServeHTTP(w, r), with r's body drawn from Bodies.
ServeHTTP(body) ==
    /\ exchange = Nil
    /\ exchange' = <<Serve(arrays, methods, body)>>
    /\ UNCHANGED <<arrays, sopts, methods, chain, client, call, procs>>

\* The HTTP server ends the exchange: w and r are gone.
Finish ==
    /\ exchange # Nil
    /\ exchange' = Nil
    /\ UNCHANGED <<arrays, sopts, methods, chain, client, call, procs>>

NextServer ==
    \/ \E method \in MethodNames, opts \in RegisterOptions :
           Register(method, HandlerOf(method), "Decode", opts)
    \/ \E body \in Bodies : ServeHTTP(body)
    \/ Finish

SpecServer == InitServer /\ [][NextServer]_vars

(***************************************************************************)
(* The composer on its own: middlewareChain applied to a list and an       *)
(* endpoint, and the composed endpoint called once.                        *)
(***************************************************************************)
InitChain ==
    /\ arrays = NewServer(<<>>).arrays
    /\ sopts = NewServer(<<>>).opts
    /\ methods = NoMethods
    /\ exchange = Nil
    /\ chain = Nil
    /\ client = NewClient([before |-> <<>>, after |-> <<>>])
    /\ call = Nil
    /\ procs = IdleProcs

ChainCall(middlewares, e, request) ==
    /\ chain = Nil
    /\ LET composed == middlewareChain(middlewares, <<e>>)
       IN chain' = <<[middlewares |-> middlewares, next |-> <<e>>,
                      composed |-> composed,
                      call |-> CallEndpoint(composed, RequestCtx, request)]>>
    /\ UNCHANGED <<serverVars, client, call, procs>>

ChainReturn ==
    /\ chain # Nil
    /\ chain' = Nil
    /\ UNCHANGED <<serverVars, client, call, procs>>

NextChain ==
    \/ \E middlewares \in SeqsUpTo(MiddlewareNames, MaxChain),
          e \in EndpointNames, request \in Params \ {"bad"} :
           ChainCall(middlewares, e, request)
    \/ ChainReturn

SpecChain == InitChain /\ [][NextChain]_vars

(***************************************************************************)
(* The client's operations, one call at a time.                            *)
(***************************************************************************)
\* The raw results and the error a server may put in a response envelope.
RawResults ==
    {Marshal(EndpointFunc(e, RequestCtx, "ok").response).result : e \in EndpointNames}

WireError == [Code |-> -32000, Message |-> <<"application error">>, Data |-> <<"detail">>]

\* The response envelopes a server may write: any id of a batch or null,
\* with a result or with an error.
WireEnvelopes ==
    LET ids == {Nil} \cup {<<n>> : n \in 1..MaxBatch}
    IN {[keys |-> {"id", "jsonrpc", "result"}, id |-> id, jsonrpc |-> "2.0",
         error |-> Nil, result |-> raw] : id \in ids, raw \in RawResults}
       \cup {[keys |-> {"id", "jsonrpc", "error"}, id |-> id, jsonrpc |-> "2.0",
              error |-> <<WireError>>, result |-> <<>>] : id \in ids}

\* The outcomes of the HTTP exchange.
Transports ==
    {[kind |-> k, data |-> [kind |-> "garbage", items |-> <<>>]] :
         k \in {"neterr", "status", "readerr"}}
    \cup {[kind |-> "body", data |-> [kind |-> k, items |-> <<>>]] :
              k \in {"garbage", "null"}}
    \cup {[kind |-> "body", data |-> [kind |-> "object", items |-> <<e>>]] :
              e \in WireEnvelopes}
    \cup {[kind |-> "body", data |-> [kind |-> "array", items |-> es]] :
              es \in SeqsUpTo(WireEnvelopes, MaxBatch)}

\* context.TODO()
TodoCtx == <<"todo">>

InitClient ==
    /\ arrays = NewServer(<<>>).arrays
    /\ sopts = NewServer(<<>>).opts
    /\ methods = NoMethods
    /\ exchange = Nil
    /\ chain = Nil
    /\ \E opts \in ClientOptions : client = NewClient(opts)
    /\ call = Nil
    /\ procs = IdleProcs

\* c.Execute(requests...)
Execute(requests, transport) ==
    /\ call = Nil
    /\ LET r == ExecuteWithContext(client, TodoCtx, requests, transport)
       IN /\ call' = <<r>>
          /\ client' = [client EXCEPT !.incrementID = r.base.incrementID]
    /\ UNCHANGED <<serverVars, chain, procs>>

\* The caller drops what the call returned.
Return ==
    /\ call # Nil
    /\ call' = Nil
    /\ UNCHANGED <<serverVars, chain, client, procs>>

NextClient ==
    \/ \E requests \in SeqsUpTo(Requesters, MaxBatch) \ {<<>>},
          transport \in Transports :
           Execute(requests, transport)
    \/ Return

SpecClient == InitClient /\ [][NextClient]_vars

(***************************************************************************)
(* The client and the server together: what Execute posts is the body      *)
(* ServeHTTP handles, and what ServeHTTP writes is the body Execute reads.  *)
(***************************************************************************)
\* The typed requests of an application that talks to the server: the third
\* makes the endpoint fail, the fourth names a method no server registers.
RoundTripRequesters ==
    {[Method |-> "add", Params |-> "ok", Before |-> <<>>, After |-> <<>>,
      Context |-> Nil],
     [Method |-> "echo", Params |-> "ok", Before |-> <<"rb">>, After |-> <<"ra">>,
      Context |-> Nil],
     [Method |-> "add", Params |-> "boom", Before |-> <<>>, After |-> <<>>,
      Context |-> Nil],
     [Method |-> "bogus", Params |-> "ok", Before |-> <<>>, After |-> <<>>,
      Context |-> Nil]}

\* The body doRequests posts for these requests.
Posted(c, requests) ==
    EncodeRequests(BuildRequests(requests, 0, ResetID(c.incrementID),
                                 [k \in {} |-> 0], <<>>, TodoCtx, <<>>).rpcRequests).body

\* The outcome of httpClient.Do(req) when the server has handled exchange x:
\* status 200 and, as the body, what ServeHTTP wrote.
Answered(x) == [kind |-> "body", data |-> x.written]

InitRoundTrip ==
    /\ \E opts \in ServerOptions :
           LET s == NewServer(opts)
           IN arrays = s.arrays /\ sopts = s.opts
    /\ methods = NoMethods
    /\ exchange = Nil
    /\ chain = Nil
    /\ \E opts \in ClientOptions : client = NewClient(opts)
    /\ call = Nil
    /\ procs = IdleProcs

\* c.Execute(requests...) against the server: a first submission, or the
\* requests of the call that has just returned submitted once more.
Submit(requests) ==
    /\ \/ call = Nil
       \/ Len(call) = 1 /\ requests = call[1].base.requests
    /\ \E body \in {Posted(client, requests)} :
       \E x \in {Serve(arrays, methods, body)} :
       \E transport \in {Answered(x)} :
       \E r \in {ExecuteWithContext(client, TodoCtx, requests, transport)} :
          /\ call' = <<r>> \o call
          /\ exchange' = <<x>> \o exchange
          /\ client' = [client EXCEPT !.incrementID = r.base.incrementID]
    /\ UNCHANGED <<arrays, sopts, methods, chain, procs>>

\* The caller drops what the calls returned; the exchanges are over.
Forget ==
    /\ call # Nil
    /\ call' = Nil
    /\ exchange' = Nil
    /\ UNCHANGED <<arrays, sopts, methods, chain, client, procs>>

NextRoundTrip ==
    \/ \E method \in MethodNames, opts \in RegisterOptions :
           Register(method, HandlerOf(method), "Decode", opts)
    \/ \E requests \in SeqsUpTo(RoundTripRequesters, MaxBatch) \ {<<>>} :
           Submit(requests)
    \/ Forget

SpecRoundTrip == InitRoundTrip /\ [][NextRoundTrip]_vars

(***************************************************************************)
(* Execute calls running concurrently on one client.  Each call is a       *)
(* goroutine in doRequests: it stores 0 in c.incrementID, then takes one   *)
(* id per request with an atomic add.  The store is a plain write, so it   *)
(* lands anywhere between the atomic adds of the other calls.              *)
(***************************************************************************)
Procs == 1..MaxProcs

InitConc ==
    /\ arrays = NewServer(<<>>).arrays
    /\ sopts = NewServer(<<>>).opts
    /\ methods = NoMethods
    /\ exchange = Nil
    /\ chain = Nil
    /\ client = NewClient([before |-> <<>>, after |-> <<>>])
    /\ call = Nil
    /\ procs = [p \in Procs |->
                   [pc |-> "idle", requests |-> <<>>, ids |-> <<>>,
                    idsIndex |-> [k \in {} |-> 0]]]

\* doRequests is entered with the requests of the call: c.incrementID = 0.
ConcReset(p, requests) ==
    /\ procs[p].pc = "idle"
    /\ client' = [client EXCEPT !.incrementID = ResetID(client.incrementID)]
    /\ procs' = [procs EXCEPT ![p] = [pc |-> "assign", requests |-> requests,
                                      ids |-> <<>>, idsIndex |-> [k \in {} |-> 0]]]
    /\ UNCHANGED <<serverVars, chain, call>>

\* One turn of the loop over the requests: the request at position Len(ids)
\* gets c.autoIncrementID() and idsIndex[r.ID] = i.
ConcAssign(p) ==
    /\ procs[p].pc = "assign"
    /\ LET i == Len(procs[p].ids)
           id == autoIncrementID(client.incrementID)
       IN /\ client' = [client EXCEPT !.incrementID = id]
          /\ procs' = [procs EXCEPT
                 ![p].ids = Append(@, id),
                 ![p].idsIndex = IndexPut(@, id, i),
                 ![p].pc = IF i + 1 = Len(procs[p].requests) THEN "sent"
                           ELSE "assign"]
    /\ UNCHANGED <<serverVars, chain, call>>

\* The call returns to its caller.
ConcReturn(p) ==
    /\ procs[p].pc = "sent"
    /\ procs' = [procs EXCEPT ![p].pc = "idle"]
    /\ UNCHANGED <<serverVars, chain, client, call>>

NextConc ==
    \/ \E p \in Procs, requests \in SeqsUpTo(Requesters, MaxBatch) \ {<<>>} :
           ConcReset(p, requests)
    \/ \E p \in Procs : ConcAssign(p)
    \/ \E p \in Procs : ConcReturn(p)

SpecConc == InitConc /\ [][NextConc]_vars

(***************************************************************************)
(* ServeHTTP calls running concurrently on one server whose registration   *)
(* has completed.  Each call is a goroutine of the HTTP server: it decodes  *)
(* its body, handles its elements one after the other and writes its       *)
(* response; between any two of these steps the other calls may run.       *)
(***************************************************************************)
\* The bodies of the concurrent requests.
DispatchBodies ==
    {[kind |-> "garbage", elems |-> <<>>],
     [kind |-> "object", elems |-> <<jsonRPCRequest(1, "add", "ok")>>],
     [kind |-> "array", elems |-> <<jsonRPCRequest(1, "add", "ok"),
                                    jsonRPCRequest(2, "echo", "ok")>>],
     [kind |-> "array", elems |-> <<jsonRPCRequest(1, "echo", "boom"),
                                    jsonRPCRequest(2, "add", "ok")>>]}

IdleDispatch ==
    [pc |-> "idle", body |-> [kind |-> "garbage", elems |-> <<>>],
     isBatch |-> FALSE, rest |-> <<>>, k |-> 0, responses |-> <<>>,
     trace |-> <<>>, written |-> [kind |-> "null", items |-> <<>>]]

\* The before list of the element's method is reversed where it lies.
ArraysAfterElementReversed(a, ms, req) ==
    IF req.Method \in DOMAIN ms /\ ms[req.Method].opts.before.arr = "srv"
    THEN LET n == ms[req.Method].opts.before.len
         IN [a EXCEPT !.before =
                [i \in 1..Len(a.before) |->
                    IF i <= n THEN a.before[n + 1 - i] ELSE a.before[i]]]
    ELSE a

\* The backing arrays of the option lists after an element has been handled:
\* ServeHTTP, handleMethod and middlewareChain read s.methods and
\* method.opts (range, middlewares[0], middlewares[1:], others[i]) and store
\* into none of them.
ArraysAfterElement(a, ms, req) == a

\* The server as its setup leaves it: NewServer, then add is registered, then
\* (perhaps) echo.
InitDispatch ==
    /\ \E so \in ServerOptions, o1 \in RegisterOptions, o2 \in RegisterOptions,
          both \in BOOLEAN :
       \E s \in {NewServer(so)} :
       \E r1 \in {RegisterMethod(s.arrays, s.opts, NoMethods, "add",
                                  HandlerOf("add"), "Decode", o1)} :
       \E r2 \in {RegisterMethod(r1.arrays, s.opts, r1.methods, "echo",
                                  HandlerOf("echo"), "Decode", o2)} :
          /\ sopts = s.opts
          /\ arrays = IF both THEN r2.arrays ELSE r1.arrays
          /\ methods = IF both THEN r2.methods ELSE r1.methods
    /\ exchange = Nil
    /\ chain = Nil
    /\ client = NewClient([before |-> <<>>, after |-> <<>>])
    /\ call = Nil
    /\ procs = [p \in Procs |-> IdleDispatch]

\* ServeHTTP is entered with a request: the body is decoded.
DispatchBegin(p, body) ==
    /\ procs[p].pc = "idle"
    /\ \E rd \in {Decode(body)} :
           procs' = [procs EXCEPT ![p] =
               [pc |-> "loop", body |-> body, isBatch |-> rd.isBatch,
                rest |-> IF rd.err # Nil THEN <<>> ELSE rd.requests,
                k |-> 1,
                responses |-> IF rd.err # Nil
                              THEN <<makeErrorResponse(Nil, jsonRPCParseError,
                                                       ErrorString(rd.err))>>
                              ELSE <<>>,
                trace |-> <<>>,
                written |-> [kind |-> "null", items |-> <<>>]]]
    /\ UNCHANGED <<serverVars, chain, client, call>>

\* One turn of the loop over the requests of the body.
DispatchStep(p) ==
    /\ procs[p].pc = "loop"
    /\ procs[p].rest # <<>>
    /\ \E req \in {Head(procs[p].rest)} :
       \E d \in {DispatchElement(arrays, methods, RequestCtx, req, procs[p].k)} :
          /\ procs' = [procs EXCEPT
                 ![p].rest = IF d.failed THEN AfterErrorResponse(Tail(@))
                             ELSE Tail(@),
                 ![p].k = @ + 1,
                 ![p].responses = Append(@, d.response),
                 ![p].trace = @ \o d.trace]
          /\ arrays' = ArraysAfterElement(arrays, methods, req)
    /\ UNCHANGED <<sopts, methods, exchange, chain, client, call>>

\* The loop is over: the responses are encoded and written.
DispatchWrite(p) ==
    /\ procs[p].pc = "loop"
    /\ procs[p].rest = <<>>
    /\ procs' = [procs EXCEPT
           ![p].pc = "done",
           ![p].written = Encode(procs[p].isBatch, procs[p].responses)]
    /\ UNCHANGED <<serverVars, chain, client, call>>

\* ServeHTTP returns.
DispatchEnd(p) ==
    /\ procs[p].pc = "done"
    /\ procs' = [procs EXCEPT ![p] = IdleDispatch]
    /\ UNCHANGED <<serverVars, chain, client, call>>

NextDispatch ==
    \/ \E p \in Procs, body \in DispatchBodies : DispatchBegin(p, body)
    \/ \E p \in Procs : DispatchStep(p)
    \/ \E p \in Procs : DispatchWrite(p)
    \/ \E p \in Procs : DispatchEnd(p)

SpecDispatch == InitDispatch /\ [][NextDispatch]_vars

(***************************************************************************)
(* The claims about the client.                                            *)
(***************************************************************************)
\* The requests of call c were posted and the response body holds exactly
\* one envelope for each id the call assigned: the answers of a server, in
\* any order.
IsPermutationResponse(c) ==
    LET rpc == c.base.rpcRequests
        data == c.base.transport.data
    IN /\ c.base.body.kind = "array"
       /\ c.base.transport.kind = "body"
       /\ data.kind = "array"
       /\ Len(data.items) = Len(rpc)
       /\ \A i \in 1..Len(rpc) :
              Cardinality({j \in 1..Len(data.items) :
                              data.items[j].id = <<rpc[i].ID>>}) = 1

\* The envelope that answers the request at position i (from 1) of call c.
EnvelopeFor(c, i) ==
    LET items == c.base.transport.data.items
    IN items[CHOOSE j \in 1..Len(items) : items[j].id = <<c.base.rpcRequests[i].ID>>]

\* The outcome of a request answered by envelope env: an *Error with the
\* envelope's code, message and data, or the request's converted result.
Outcome(request, env) ==
    IF "error" \in env.keys
    THEN <<[kind |-> "error", of |-> "", value |-> Nil,
            code |-> env.error[1].Code, message |-> env.error[1].Message,
            data |-> env.error[1].Data]>>
    ELSE MakeResult(request, env.result).result

Converts(request, env) ==
    "error" \in env.keys \/ MakeResult(request, env.result).err = Nil

\* C1: for a batch of N >= 1 requests whose response envelopes arrive in any
\* order, the returned BatchResult has Len() = N, every slot is assigned
\* exactly once, and At(i) is the outcome of the i-th submitted request.
C1_BatchResultInSubmissionOrder ==
    call # Nil =>
        LET c == call[1]
            n == Len(c.base.requests)
        IN /\ c.batch # Nil => BatchLen(c.batch) = n
           /\ IsPermutationResponse(c) =>
                  /\ (\A i \in 1..n : Converts(c.base.requests[i], EnvelopeFor(c, i)))
                         => c.batch # Nil /\ c.err = Nil
                  /\ c.batch # Nil =>
                         \A i \in 0..(n - 1) :
                             /\ c.writes[i + 1] = 1
                             /\ BatchAt(c.batch, i) =
                                    Outcome(c.base.requests[i + 1], EnvelopeFor(c, i + 1))

\* A call of two requests answered in reverse order returned its BatchResult.
C1_Witness ==
    /\ call # Nil
    /\ Len(call[1].base.requests) = 2
    /\ IsPermutationResponse(call[1])
    /\ call[1].base.transport.data.items[1].id = <<call[1].base.rpcRequests[2].ID>>
    /\ call[1].base.requests[1] # call[1].base.requests[2]
    /\ call[1].batch # Nil

\* C3: in a call that runs alone the ids of the batch are unique and
\* strictly increasing in submission order, and the table doRequests builds
\* maps exactly those ids one-to-one onto the positions 0..N-1, the id of
\* request i to i; so it is for every call of a sequence of calls.
C3_IdsIncreasingTableBijective ==
    call # Nil =>
        LET rpc == call[1].base.rpcRequests
            table == call[1].base.table
            n == Len(call[1].base.requests)
        IN /\ Len(rpc) = n
           /\ \A i, j \in 1..n : i < j => rpc[i].ID < rpc[j].ID
           /\ DOMAIN table = {rpc[i].ID : i \in 1..n}
           /\ Cardinality(DOMAIN table) = n
           /\ \A i \in 1..n : table[rpc[i].ID] = i - 1
           /\ {table[k] : k \in DOMAIN table} = 0..(n - 1)

\* A call of two requests on a client that has made a call before.
C3_Witness ==
    /\ call # Nil
    /\ call[1].base.entryID > 0
    /\ Len(call[1].base.rpcRequests) = 2
    /\ Cardinality(DOMAIN call[1].base.table) = 2

\* C4: when a decoded response envelope has an id that is no key of the
\* call's correlation table, Execute fails with a call-level error and
\* returns no BatchResult.
C4_UnknownIdFailsCall ==
    call # Nil =>
        ((\E j \in 1..Len(call[1].responses) :
              call[1].responses[j].ID \notin DOMAIN call[1].idsIndex)
         => call[1].err # Nil /\ call[1].batch = Nil)

\* C10: an envelope that carries an error for one request of a batch does
\* not abort the call: Execute returns the BatchResult and a nil error, the
\* slot of that request holds an *Error, and the slot of every sibling whose
\* envelope carries a result holds its converted result.
C10_ErrorEnvelopeDoesNotAbort ==
    call # Nil =>
        LET c == call[1]
            n == Len(c.base.requests)
        IN (/\ IsPermutationResponse(c)
            /\ \E i \in 1..n : "error" \in EnvelopeFor(c, i).keys
            /\ \A i \in 1..n : Converts(c.base.requests[i], EnvelopeFor(c, i)))
           => /\ c.err = Nil
              /\ c.batch # Nil
              /\ BatchLen(c.batch) = n
              /\ \A i \in 1..n :
                     LET env == EnvelopeFor(c, i)
                     IN IF "error" \in env.keys
                        THEN /\ BatchError(c.batch, i - 1) # Nil
                             /\ BatchAt(c.batch, i - 1) = Outcome(c.base.requests[i], env)
                        ELSE /\ BatchError(c.batch, i - 1) = Nil
                             /\ BatchAt(c.batch, i - 1) =
                                    MakeResult(c.base.requests[i], env.result).result

\* A call of two requests: the first answered with an error, the second with
\* a result; the BatchResult holds the *Error and the converted result.
C10_Witness ==
    /\ call # Nil
    /\ Len(call[1].base.requests) = 2
    /\ IsPermutationResponse(call[1])
    /\ "error" \in EnvelopeFor(call[1], 1).keys
    /\ "result" \in EnvelopeFor(call[1], 2).keys
    /\ call[1].batch # Nil
    /\ BatchError(call[1].batch, 0) # Nil
    /\ BatchError(call[1].batch, 1) = Nil
    /\ BatchAt(call[1].batch, 1) # Nil

\* The call-level failures of call c, told from what the call was given: the
\* requests cannot be serialized, the exchange fails, answers another status
\* or its body cannot be read, the body is no JSON array, or a result that
\* the loop reaches is not convertible by the request of its slot.
CallLevelFailure(c) ==
    LET t == c.base.transport
        u == Unmarshal(t.data)
    IN \/ \E i \in 1..Len(c.base.requests) : c.base.requests[i].Params = "chan"
       \/ t.kind # "body"
       \/ u.err # Nil
       \/ \E j \in 1..Len(u.responses) :
              /\ u.responses[j].Error = Nil
              /\ MakeResult(c.base.requests[
                                MapGet(c.base.table, u.responses[j].ID) + 1],
                            u.responses[j].Result).err # Nil

\* C11: on every call-level failure of Execute (serialization, transport,
\* status, body read, decoding of the body or of a result) the call returns
\* an error and no BatchResult, and a call that returns an error never
\* returns a BatchResult, whatever slots were filled before the failure.
C11_NoPartialBatchOnFailure ==
    call # Nil =>
        /\ CallLevelFailure(call[1]) => call[1].err # Nil /\ call[1].batch = Nil
        /\ call[1].err # Nil => call[1].batch = Nil
        /\ call[1].err = Nil => call[1].batch # Nil

\* A call of two requests whose first result filled its slot and whose
\* second result could not be converted: an error and no BatchResult.
C11_Witness ==
    /\ call # Nil
    /\ Len(call[1].base.requests) = 2
    /\ call[1].base.transport.kind = "body"
    /\ call[1].writes[1] = 1
    /\ CallLevelFailure(call[1])
    /\ call[1].err = <<"cannot convert result">>
    /\ call[1].batch = Nil

\* A call whose requests could not be serialized: no POST, an error and no
\* BatchResult.
C11_WitnessSerialization ==
    /\ call # Nil
    /\ call[1].err = <<"json: unsupported type">>
    /\ call[1].batch = Nil

\* The hook events a call with these requests is to log up to its POST: every
\* global before-hook once, in registration order, then the before-hooks of
\* the requests, request by request.
RECURSIVE RequestHooks(_)
RequestHooks(requests) ==
    IF requests = <<>> THEN <<>>
    ELSE [j \in 1..Len(Head(requests).Before) |->
             [ev |-> "before", who |-> Head(requests).Before[j]]]
         \o RequestHooks(Tail(requests))

ExpectedHooks(c, requests) ==
    [j \in 1..Len(c.opts.before) |-> [ev |-> "global", who |-> c.opts.before[j]]]
    \o RequestHooks(requests)

\* The events of a log that are not after-hooks.
UpToPost(log) == SelectSeq(log, LAMBDA e : e.ev # "after")

\* The hooks of call c ran as ExpectedHooks says, then exactly one POST was
\* issued, with a JSON array of the N wire requests as its body.
HooksThenOnePost(c) ==
    LET n == Len(c.base.requests)
    IN /\ UpToPost(c.log) = Append(ExpectedHooks(client, c.base.requests),
                                   [ev |-> "post", who |-> "POST"])
       /\ c.base.body.kind = "array"
       /\ Len(c.base.body.elems) = n
       /\ \A i \in 1..n :
              c.base.body.elems[i] =
                  jsonRPCRequest(i, c.base.requests[i].Method,
                                 c.base.requests[i].Params)

C20_WitnessSingle ==
    /\ call # Nil
    /\ Len(call[1].base.requests) = 1
    /\ call[1].base.body.kind = "array"
    /\ Len(call[1].base.body.elems) = 1
    /\ Len(SelectSeq(call[1].log, LAMBDA e : e.ev = "post")) = 1

\* C2: under every interleaving of concurrent Execute calls on one client,
\* the ids a call assigns within its own batch are pairwise distinct.
C2_IdsDistinctWithinBatch ==
    \A p \in DOMAIN procs :
        \A i, j \in 1..Len(procs[p].ids) :
            i # j => procs[p].ids[i] # procs[p].ids[j]

(***************************************************************************)
(* The claims about the server.                                            *)
(***************************************************************************)
\* C5: ServeHTTP keeps the framing of the request: an array of N request
\* envelopes yields an array of exactly N response envelopes, the k-th with
\* the id of the k-th request; a single request object yields exactly one
\* response envelope, written as an object.
C5_FramingPreserved ==
    (exchange # Nil /\ exchange[1].decodeErr = Nil) =>
        LET x == exchange[1]
        IN IF x.body.kind = "array"
           THEN /\ x.written.kind = "array"
                /\ Len(x.written.items) = Len(x.body.elems)
                /\ \A k \in 1..Len(x.body.elems) :
                       k <= Len(x.written.items)
                       /\ x.written.items[k].id = x.body.elems[k].ID
           ELSE /\ x.written.kind = "object"
                /\ Len(x.written.items) = 1
                /\ x.written.items[1].id = x.body.elems[1].ID

\* C6: whenever decoding the body fails, array or not, the server writes
\* exactly one error envelope with code -32700 and id null, as an object,
\* and dispatches no method.
C6_ParseErrorUnwrapped ==
    (exchange # Nil /\ exchange[1].decodeErr # Nil) =>
        LET x == exchange[1]
        IN /\ x.written.kind = "object"
           /\ Len(x.written.items) = 1
           /\ x.written.items[1].id = Nil
           /\ "error" \in x.written.items[1].keys
           /\ x.written.items[1].error[1].Code = jsonRPCParseError
           /\ x.trace = <<>>

\* The positions of the elements of reqs that name a registered method.
KnownPositions(reqs) ==
    SelectSeq([k \in 1..Len(reqs) |-> k],
              LAMBDA k : reqs[k].Method \in DOMAIN methods)

\* C7: in a batch, an element whose method is not registered gets an error
\* envelope with code -32601 and its own id, and only such an element does;
\* every sibling naming a registered method is dispatched and gets the
\* response it gets when the unknown-method elements are absent.
C7_UnknownMethodIsolated ==
    (exchange # Nil /\ exchange[1].decodeErr = Nil
        /\ exchange[1].body.kind = "array") =>
        LET x == exchange[1]
            reqs == x.body.elems
            resp == x.responses
            pos == KnownPositions(reqs)
            without == Serve(arrays, methods,
                             [kind |-> "array",
                              elems |-> [i \in 1..Len(pos) |-> reqs[pos[i]]]])
        IN /\ Len(resp) = Len(reqs)
           /\ \A k \in 1..Len(reqs) :
                  IF reqs[k].Method \notin DOMAIN methods
                  THEN /\ resp[k].ID = reqs[k].ID
                       /\ resp[k].Error # Nil
                       /\ resp[k].Error[1].Code = jsonRPCMethodNotFoundError
                       /\ resp[k].Result = <<>>
                       /\ \A e \in 1..Len(x.trace) : x.trace[e].k # k
                  ELSE /\ resp[k].Error # Nil
                           => resp[k].Error[1].Code # jsonRPCMethodNotFoundError
                       /\ \E e \in 1..Len(x.trace) : x.trace[e].k = k
           /\ Len(without.responses) = Len(pos)
           /\ \A i \in 1..Len(pos) : resp[pos[i]] = without.responses[i]

\* A batch of an unknown method followed by a registered one that succeeds.
C7_Witness ==
    /\ exchange # Nil
    /\ exchange[1].body.kind = "array"
    /\ Len(exchange[1].responses) = 2
    /\ exchange[1].body.elems[1].typed
    /\ exchange[1].body.elems[1].Method \notin DOMAIN methods
    /\ exchange[1].responses[1].Error # Nil
    /\ exchange[1].responses[1].Error[1].Code = jsonRPCMethodNotFoundError
    /\ exchange[1].responses[2].Error = Nil
    /\ exchange[1].responses[2].Result # <<>>

\* The description of the failure of an element with these params handled by
\* method m, from what the application's hooks, decode function and endpoint
\* do; Nil when nothing fails.
ExpectedFailure(m, params) ==
    LET hooks == Elems(arrays, "before", m.opts.before)
        bad == {i \in 1..Len(hooks) : BeforeFunc(hooks[i], <<>>).err # Nil}
    IN IF bad # {}
       THEN BeforeFunc(hooks[CHOOSE i \in bad : \A j \in bad : i <= j], <<>>).err
       ELSE IF ReqDecodeFunc(m.reqDecode, <<>>, params).err # Nil
       THEN ReqDecodeFunc(m.reqDecode, <<>>, params).err
       ELSE IF EndpointFunc(m.endpoint, <<>>, params).err # Nil
       THEN EndpointFunc(m.endpoint, <<>>, params).err
       ELSE Marshal(EndpointFunc(m.endpoint, <<>>, params).response).err

\* C8: in a batch, a failure of an element's before-hook, params decode,
\* endpoint or result serialization gives that element an error envelope
\* with code -32603 and the failure's description as message, and every
\* element of the batch gets the response it gets when sent alone.
C8_ElementFailureIsolated ==
    (exchange # Nil /\ exchange[1].decodeErr = Nil
        /\ exchange[1].body.kind = "array") =>
        LET x == exchange[1]
            reqs == x.body.elems
            resp == x.responses
        IN /\ Len(resp) = Len(reqs)
           /\ \A k \in 1..Len(reqs) :
                  /\ resp[k] = Serve(arrays, methods,
                                     [kind |-> "array", elems |-> <<reqs[k]>>]
                                    ).responses[1]
                  /\ reqs[k].Method \in DOMAIN methods =>
                         LET fail == ExpectedFailure(methods[reqs[k].Method],
                                                     reqs[k].Params)
                         IN IF fail # Nil
                            THEN /\ resp[k].ID = reqs[k].ID
                                 /\ resp[k].Result = <<>>
                                 /\ resp[k].Error # Nil
                                 /\ resp[k].Error[1].Code = jsonRPCInternalError
                                 /\ resp[k].Error[1].Message = ErrorString(fail)
                            ELSE /\ resp[k].Error = Nil
                                 /\ resp[k].Result # <<>>

\* A batch whose first element fails in a before-hook and whose second
\* element, of a method with hooks of its own, succeeds.
C8_Witness ==
    /\ exchange # Nil
    /\ exchange[1].body.kind = "array"
    /\ Len(exchange[1].responses) = 2
    /\ exchange[1].responses[1].Error # Nil
    /\ exchange[1].responses[1].Error[1].Code = jsonRPCInternalError
    /\ exchange[1].responses[1].Error[1].Message = <<"hook failed", "hFail">>
    /\ exchange[1].responses[2].Error = Nil
    /\ \E e \in 1..Len(exchange[1].trace) :
           exchange[1].trace[e].k = 2 /\ exchange[1].trace[e].ev = "after"

\* The items of the given kind that a list of options appends, in order.
RECURSIVE GivenItems(_, _)
GivenItems(opts, kind) ==
    IF opts = <<>> THEN <<>>
    ELSE (IF Head(opts).kind = kind THEN Head(opts).items ELSE <<>>)
         \o GivenItems(Tail(opts), kind)

\* C14: after any sequence of Register calls, the before-hooks, after-hooks
\* and middleware every registered method is dispatched with are the
\* server-level defaults, in their order, followed by the options given at
\* that method's own registration: no later registration changes them.
C14_RegisterComposesDefaults ==
    \A n \in DOMAIN methods :
        \A kind \in OptionKinds :
            Elems(arrays, kind, methods[n].opts[kind]) =
                Elems(arrays, kind, sopts[kind]) \o GivenItems(methods[n].given, kind)

\* C15: every response envelope ServeHTTP writes, on the success path, the
\* parse-error path, the method-not-found path and the internal-error path,
\* carries exactly one of "result" and "error".
C15_ExactlyOneOfResultError ==
    exchange # Nil =>
        \A i \in 1..Len(exchange[1].written.items) :
            LET keys == exchange[1].written.items[i].keys
            IN /\ "result" \in keys \/ "error" \in keys
               /\ ~("result" \in keys /\ "error" \in keys)
               /\ "result" \in keys <=> exchange[1].responses[i].Error = Nil

\* A batch answered with a result envelope and an internal-error envelope.
C15_Witness ==
    /\ exchange # Nil
    /\ exchange[1].written.kind = "array"
    /\ Len(exchange[1].written.items) = 2
    /\ exchange[1].written.items[1].keys = {"id", "jsonrpc", "result"}
    /\ exchange[1].written.items[2].keys = {"id", "jsonrpc", "error"}
    /\ exchange[1].written.items[2].error[1].Code = jsonRPCInternalError

\* A body that is not JSON answered with a parse-error envelope.
C15_WitnessParseError ==
    /\ exchange # Nil
    /\ exchange[1].decodeErr # Nil
    /\ exchange[1].written.items[1].keys = {"id", "jsonrpc", "error"}
    /\ exchange[1].written.items[1].error[1].Code = jsonRPCParseError

\* C16: once registration has completed, ServeHTTP calls running
\* concurrently on one server do not interfere: no step of a call changes
\* the method registry, the server-level option lists or the method-level
\* option lists, and every call collects and writes what ServeHTTP collects
\* and writes when it handles the same body alone.
C16_ConcurrentDispatchesIndependent ==
    /\ [][UNCHANGED <<arrays, sopts, methods>>]_vars
    /\ [](\A p \in DOMAIN procs :
              procs[p].pc = "done" =>
                  LET alone == Serve(arrays, methods, procs[p].body)
                  IN /\ procs[p].responses = alone.responses
                     /\ procs[p].written = alone.written
                     /\ procs[p].trace = alone.trace)

\* One call has written the two responses of its batch while another call,
\* on another body, has handled the first of its two elements.
C16_Witness ==
    \E p, q \in DOMAIN procs :
        /\ p # q
        /\ procs[p].pc = "done"
        /\ Len(procs[p].written.items) = 2
        /\ procs[q].pc = "loop"
        /\ procs[q].body # procs[p].body
        /\ Len(procs[q].responses) = 1
        /\ Len(procs[q].rest) = 1

\* The steps the dispatch of an element with these params by method m is to
\* take, from what the application's functions do: the before-hooks in
\* registration order up to the first that fails; then the decode; then the
\* middleware in order, the endpoint, and the middleware in reverse order;
\* then the after-hooks in registration order; then the serialization.  A
\* step that fails is the last.
ExpectedSteps(m, method, params) ==
    LET hooks == Elems(arrays, "before", m.opts.before)
        mids == Elems(arrays, "middleware", m.opts.middleware)
        afters == Elems(arrays, "after", m.opts.after)
        bad == {i \in 1..Len(hooks) : BeforeFunc(hooks[i], <<>>).err # Nil}
        nb == IF bad = {} THEN Len(hooks) ELSE CHOOSE i \in bad : \A j \in bad : i <= j
        befores == [i \in 1..nb |-> [ev |-> "before", who |-> hooks[i]]]
        decode == <<[ev |-> "decode", who |-> m.reqDecode]>>
        chained == [i \in 1..Len(mids) |-> [ev |-> "enter", who |-> mids[i]]]
                \o <<[ev |-> "enter", who |-> m.endpoint],
                     [ev |-> "exit", who |-> m.endpoint]>>
                \o [i \in 1..Len(mids) |->
                       [ev |-> "exit", who |-> mids[Len(mids) + 1 - i]]]
        after == [i \in 1..Len(afters) |-> [ev |-> "after", who |-> afters[i]]]
        marshal == <<[ev |-> "marshal", who |-> method]>>
    IN IF bad # {} THEN befores
       ELSE IF ReqDecodeFunc(m.reqDecode, <<>>, params).err # Nil
       THEN befores \o decode
       ELSE IF EndpointFunc(m.endpoint, <<>>, params).err # Nil
       THEN befores \o decode \o chained
       ELSE befores \o decode \o chained \o after \o marshal

\* The events of exchange x that belong to the element at position k.
EventsOf(x, k) ==
    LET own == SelectSeq(x.trace, LAMBDA e : e.k = k)
    IN [i \in 1..Len(own) |-> [ev |-> own[i].ev, who |-> own[i].who]]

\* Every element of the exchange takes its steps in the fixed order, stops at
\* the step that fails, and has taken all its steps before the next element
\* takes any.
StepsInOrder(x) ==
    /\ \A e1, e2 \in 1..Len(x.trace) : e1 < e2 => x.trace[e1].k <= x.trace[e2].k
    /\ \A e \in 1..Len(x.trace) : x.trace[e].k \in 1..Len(x.body.elems)
    /\ \A k \in 1..Len(x.body.elems) :
           EventsOf(x, k) =
               IF x.body.elems[k].Method \in DOMAIN methods
               THEN ExpectedSteps(methods[x.body.elems[k].Method],
                                  x.body.elems[k].Method, x.body.elems[k].Params)
               ELSE <<>>

\* C18 as stated: the steps of every element are taken in the fixed order, a
\* failing step is the last step of its element, element k finishes before
\* element k + 1 starts, and no after-hook runs for an element that is
\* answered with an error.
C18_StepOrderNoAfterForFailed ==
    (exchange # Nil /\ exchange[1].decodeErr = Nil) =>
        LET x == exchange[1]
        IN /\ StepsInOrder(x)
           /\ \A k \in 1..Len(x.body.elems) :
                  x.responses[k].Error # Nil =>
                      \A i \in 1..Len(EventsOf(x, k)) : EventsOf(x, k)[i].ev # "after"

\* C18, amended: the steps of every element are taken in the fixed order
\* (before-hooks, decode, endpoint through the chain, after-hooks,
\* serialization), a failing step is the last step of its element, element k
\* finishes before element k + 1 starts, and no after-hook runs for an
\* element whose before-hook, decode or endpoint failed; an element whose
\* serialization fails has had all its after-hooks run.
C18_StepOrder ==
    (exchange # Nil /\ exchange[1].decodeErr = Nil) =>
        LET x == exchange[1]
        IN /\ StepsInOrder(x)
           /\ \A k \in 1..Len(x.body.elems) :
                  LET ev == EventsOf(x, k)
                      marshalled == \E i \in 1..Len(ev) : ev[i].ev = "marshal"
                  IN /\ (x.responses[k].Error # Nil /\ ~marshalled) =>
                             \A i \in 1..Len(ev) : ev[i].ev # "after"
                     /\ (marshalled /\ x.body.elems[k].Method \in DOMAIN methods) =>
                             Len(SelectSeq(ev, LAMBDA e : e.ev = "after")) =
                                 methods[x.body.elems[k].Method].opts.after.len

\* A batch whose first element passes three before-hooks and fails in the
\* fourth, and whose second element takes every step, from its first
\* before-hook to the after-hook and the serialization.
C18_Witness ==
    /\ exchange # Nil
    /\ exchange[1].decodeErr = Nil
    /\ Len(exchange[1].body.elems) = 2
    /\ EventsOf(exchange[1], 1) =
           <<[ev |-> "before", who |-> "s1"], [ev |-> "before", who |-> "s2"],
             [ev |-> "before", who |-> "s3"], [ev |-> "before", who |-> "hFail"]>>
    /\ exchange[1].responses[2].Error = Nil
    /\ Len(EventsOf(exchange[1], 2)) > 0
    /\ EventsOf(exchange[1], 2)[1] = [ev |-> "before", who |-> "s1"]
    /\ Len(SelectSeq(EventsOf(exchange[1], 2), LAMBDA e : e.ev = "after")) = 1
    /\ EventsOf(exchange[1], 2)[Len(EventsOf(exchange[1], 2))].ev = "marshal"

\* An element whose serialization failed after its after-hooks had run.
C18_WitnessSerialization ==
    /\ exchange # Nil
    /\ exchange[1].decodeErr = Nil
    /\ Len(exchange[1].body.elems) = 1
    /\ exchange[1].responses[1].Error # Nil
    /\ \E i \in 1..Len(EventsOf(exchange[1], 1)) :
           EventsOf(exchange[1], 1)[i].ev = "after"

\* The context with which the endpoint of the element at position k of
\* exchange x was called, as its result records it.
EndpointCtx(x, k) == x.responses[k].Result[2].ctx

\* The context the before-hooks of method m make of the request's context.
RECURSIVE HookedCtx(_, _)
HookedCtx(hooks, ctx) ==
    IF hooks = <<>> THEN ctx
    ELSE HookedCtx(Tail(hooks), BeforeFunc(Head(hooks), ctx).ctx)

\* C19: in a batch no element observes the context another element's before-
\* or after-hooks returned: the endpoint of every element that succeeds is
\* called with the context of the incoming HTTP request as rewritten by the
\* before-hooks of its own method, and by nothing else.
C19_ContextNotSharedBetweenElements ==
    (exchange # Nil /\ exchange[1].decodeErr = Nil) =>
        LET x == exchange[1]
        IN \A k \in 1..Len(x.responses) :
               x.responses[k].Error = Nil =>
                   EndpointCtx(x, k) =
                       HookedCtx(Elems(arrays, "before",
                                       methods[x.body.elems[k].Method].opts.before),
                                 RequestCtx)

\* A batch whose first element ran before- and after-hooks and whose second
\* element, of a method without hooks, was called with the context of the
\* HTTP request.
C19_Witness ==
    /\ exchange # Nil
    /\ exchange[1].decodeErr = Nil
    /\ Len(exchange[1].responses) = 2
    /\ \E e \in 1..Len(exchange[1].trace) :
           exchange[1].trace[e].k = 1 /\ exchange[1].trace[e].ev = "before"
    /\ \E e \in 1..Len(exchange[1].trace) :
           exchange[1].trace[e].k = 1 /\ exchange[1].trace[e].ev = "after"
    /\ exchange[1].responses[2].Error = Nil
    /\ EndpointCtx(exchange[1], 2) = RequestCtx

\* A batch of two elements of methods with before-hooks of their own: each
\* endpoint was called with the request's context and its own hooks' marks.
C19_WitnessHooks ==
    /\ exchange # Nil
    /\ exchange[1].decodeErr = Nil
    /\ Len(exchange[1].responses) = 2
    /\ exchange[1].responses[1].Error = Nil
    /\ exchange[1].responses[2].Error = Nil
    /\ Len(EndpointCtx(exchange[1], 1)) > 1
    /\ EndpointCtx(exchange[1], 2) = <<"http", "s1", "s2", "s3">>

(***************************************************************************)
(* The claim about the composer.                                           *)
(***************************************************************************)
\* C9: a call of middlewareChain(list)(E) enters the elements of the list in
\* order, then E, and leaves E, then the elements in reverse order: element
\* k is entered before element k + 1 and left after it; for the empty list
\* the endpoint is returned unchanged.
C9_ChainOrder ==
    chain # Nil =>
        LET c == chain[1]
            ms == c.middlewares
            n == Len(ms)
            t == c.call.trace
        IN /\ Len(t) = 2 * n + 2
           /\ \A k \in 1..n : t[k] = [ev |-> "enter", who |-> ms[k]]
           /\ t[n + 1] = [ev |-> "enter", who |-> c.next[1]]
           /\ t[n + 2] = [ev |-> "exit", who |-> c.next[1]]
           /\ \A k \in 1..n : t[2 * n + 3 - k] = [ev |-> "exit", who |-> ms[k]]
           /\ n = 0 => c.composed = c.next

\* The list [A, B, C] around Add: entered A, B, C, Add and left Add, C, B, A.
C9_Witness ==
    /\ chain # Nil
    /\ chain[1].middlewares = <<"A", "B", "C">>
    /\ chain[1].call.trace =
           <<[ev |-> "enter", who |-> "A"], [ev |-> "enter", who |-> "B"],
             [ev |-> "enter", who |-> "C"], [ev |-> "enter", who |-> "Add"],
             [ev |-> "exit", who |-> "Add"], [ev |-> "exit", who |-> "C"],
             [ev |-> "exit", who |-> "B"], [ev |-> "exit", who |-> "A"]>>

(***************************************************************************)
(* The claims about the client and the server together.                    *)
(***************************************************************************)
\* The endpoint of the element at position k of exchange x was called.
EndpointReached(x, k) ==
    \E e \in 1..Len(x.trace) :
        /\ x.trace[e].k = k
        /\ x.trace[e].ev = "enter"
        /\ x.trace[e].who = HandlerOf(x.body.elems[k].Method)

\* C12: when a server endpoint fails with an application error that carries
\* a code, a message and data, the error envelope the server writes and the
\* *Error the client builds from it have the code, the message and the data
\* of the application error.
C12_ErrorRoundTrip ==
    (call # Nil /\ exchange # Nil) =>
        LET c == call[1]
            x == exchange[1]
        IN \A i \in 1..Len(c.base.requests) :
               LET app == EndpointFunc(HandlerOf(c.base.requests[i].Method),
                                       RequestCtx, c.base.requests[i].Params).err
               IN (i <= Len(x.body.elems) /\ EndpointReached(x, i) /\ app # Nil) =>
                      /\ "error" \in x.written.items[i].keys
                      /\ x.written.items[i].error[1].Code = ErrorCode(app)
                      /\ x.written.items[i].error[1].Message = ErrorString(app)
                      /\ x.written.items[i].error[1].Data = ErrorData(app)
                      /\ c.batch # Nil
                      /\ BatchError(c.batch, i - 1) # Nil
                      /\ ErrorCode(BatchError(c.batch, i - 1)) = ErrorCode(app)
                      /\ ErrorString(BatchError(c.batch, i - 1)) = ErrorString(app)
                      /\ ErrorData(BatchError(c.batch, i - 1)) = ErrorData(app)

\* C13: end to end, in a batch that mixes registered and unregistered
\* methods, the result at the position of a registered method whose dispatch
\* succeeds is the result of that method's endpoint, converted by the
\* request, and the result at the position of an unregistered method is an
\* *Error with code -32601, wherever the unregistered method stands.
C13_EndToEndMixedBatch ==
    (call # Nil /\ exchange # Nil) =>
        LET c == call[1]
            n == Len(c.base.requests)
        IN /\ c.err = Nil
           /\ c.batch # Nil
           /\ BatchLen(c.batch) = n
           /\ \A i \in 1..n :
                  LET request == c.base.requests[i]
                  IN IF request.Method \notin DOMAIN methods
                     THEN /\ BatchError(c.batch, i - 1) # Nil
                          /\ ErrorCode(BatchError(c.batch, i - 1)) =
                                 jsonRPCMethodNotFoundError
                     ELSE ExpectedFailure(methods[request.Method], request.Params) = Nil
                          => /\ BatchError(c.batch, i - 1) = Nil
                             /\ BatchAt(c.batch, i - 1) # Nil
                             /\ BatchAt(c.batch, i - 1)[1].of = request.Method
                             /\ BatchAt(c.batch, i - 1)[1].value[1].by =
                                    HandlerOf(request.Method)
                             /\ BatchAt(c.batch, i - 1)[1].value[1].arg =
                                    request.Params

\* add then bogus on a server that registers only add: the result of Add at
\* position 0 and an *Error with code -32601 at position 1.
C13_Witness ==
    /\ call # Nil /\ exchange # Nil
    /\ DOMAIN methods = {"add"}
    /\ Len(call[1].base.requests) = 2
    /\ call[1].base.requests[1].Method = "add"
    /\ call[1].base.requests[2].Method = "bogus"
    /\ call[1].batch # Nil
    /\ BatchError(call[1].batch, 0) = Nil
    /\ BatchAt(call[1].batch, 0)[1].value[1].by = "Add"
    /\ BatchError(call[1].batch, 1) # Nil
    /\ ErrorCode(BatchError(call[1].batch, 1)) = jsonRPCMethodNotFoundError

\* bogus then add: the *Error at position 0 and the result at position 1.
C13_WitnessBogusFirst ==
    /\ call # Nil /\ exchange # Nil
    /\ DOMAIN methods = {"add"}
    /\ Len(call[1].base.requests) = 2
    /\ call[1].base.requests[1].Method = "bogus"
    /\ call[1].base.requests[2].Method = "add"
    /\ call[1].batch # Nil
    /\ BatchError(call[1].batch, 0) # Nil
    /\ BatchError(call[1].batch, 1) = Nil

\* C17: the identical batch submitted a second time on the same client
\* against the same server gets the ids, the posted body, the responses and
\* the BatchResult of the first submission.
C17_ResubmissionIdentical ==
    Len(call) = 2 =>
        /\ call[1].base.requests = call[2].base.requests
        /\ call[1].base.rpcRequests = call[2].base.rpcRequests
        /\ call[1].base.body = call[2].base.body
        /\ exchange[1].responses = exchange[2].responses
        /\ exchange[1].written = exchange[2].written
        /\ call[1].responses = call[2].responses
        /\ call[1].batch = call[2].batch
        /\ call[1].err = call[2].err

\* A batch of two requests submitted twice to a server that registers add:
\* both submissions returned a BatchResult.
C17_Witness ==
    /\ Len(call) = 2
    /\ Len(call[1].base.requests) = 2
    /\ "add" \in DOMAIN methods
    /\ call[2].batch # Nil
    /\ call[1].batch # Nil
    /\ call[1].base.entryID = 2
    /\ call[1].base.rpcRequests[1].ID = 1

=============================================================================
